---------------------------- MODULE Spec2Model ----------------------------
(***************************************************************************)
(* The AgentCore Gateway request interceptor                               *)
(* (aws-agentcore/samples/2-gateway-external-mcp/lambda/interceptor.py):   *)
(* handler(event, context) reads the Neo4j credentials from Secrets        *)
(* Manager and replaces the inbound OAuth authorization header by an       *)
(* RFC 7617 Basic header.                                                  *)
(*                                                                         *)
(* Text is a sequence of code points, a dict is a function whose domain is *)
(* its key set, and Python's None is the one-element sequence <<-1>>, which *)
(* is no text.  Every invocation is a process whose position (pc) is the   *)
(* source line it executes next.                                           *)
(***************************************************************************)
EXTENDS Integers, Sequences, FiniteSets, TLC

\* ------------------------------------------------------------------ bounds
\* Longest generated credential string (beside the deployed sample value).
MaxLen == 1
\* Calls made on one event: the first, then calls on the returned event.
MaxCalls == 2
\* Concurrent invocations of SpecConc.
NumProcs == 2

\* -------------------------------------------------------------------- text
\* The printable ASCII characters, code points 32 to 126 (the grave accent,
\* which a TLA+ string cannot hold, is spelled out).
AsciiPrintable ==
  << " ", "!", "\"", "#", "$", "%", "&", "'", "(", ")", "*", "+", ",", "-",
     ".", "/", "0", "1", "2", "3", "4", "5", "6", "7", "8", "9", ":", ";",
     "<", "=", ">", "?", "@", "A", "B", "C", "D", "E", "F", "G", "H", "I",
     "J", "K", "L", "M", "N", "O", "P", "Q", "R", "S", "T", "U", "V", "W",
     "X", "Y", "Z", "[", "\\", "]", "^", "_", "(grave)", "a", "b", "c", "d", "e",
     "f", "g", "h", "i", "j", "k", "l", "m", "n", "o", "p", "q", "r", "s",
     "t", "u", "v", "w", "x", "y", "z", "{", "|", "}", "~" >>

\* The code point of a one-character string.
Ord(c) == 31 + (CHOOSE n \in 1..Len(AsciiPrintable) : AsciiPrintable[n] = c)

\* A text written character by character, as its code points.
Codes(cs) == [n \in 1..Len(cs) |-> Ord(cs[n])]

\* The string of a printable ASCII text.
RECURSIVE Str(_)
Str(s) == IF s = <<>> THEN "" ELSE AsciiPrintable[Head(s) - 31] \o Str(Tail(s))

\* Python's None.
None == << -1 >>

\* bool(v) of a text or None: None and "" are falsy.
Truthy(v) == v # None /\ v # <<>>

\* f"{v}": a text is itself, None is formatted as "None".
FStr(v) == IF v = None THEN Codes(<<"N", "o", "n", "e">>) ELSE v

\* str.encode('ascii') succeeds on the code points below 128 only; on
\* success the bytes are the code points.
CanEncodeAscii(s) == \A n \in 1..Len(s) : s[n] >= 0 /\ s[n] < 128

\* ------------------------------------------------------------------ base64
\* The character (its code point) of a sextet: A-Z a-z 0-9 + /.
B64Char(v) ==
  IF v < 26 THEN 65 + v
  ELSE IF v < 52 THEN 97 + (v - 26)
  ELSE IF v < 62 THEN 48 + (v - 52)
  ELSE IF v = 62 THEN 43 ELSE 47

\* The sextet of a base64 character.
B64Val(c) ==
  IF c >= 65 /\ c <= 90 THEN c - 65
  ELSE IF c >= 97 /\ c <= 122 THEN c - 97 + 26
  ELSE IF c >= 48 /\ c <= 57 THEN c - 48 + 52
  ELSE IF c = 43 THEN 62 ELSE 63

\* The padding character "=".
B64Pad == Ord("=")

\* base64.b64encode: three bytes give four characters, a last group of one
\* or two bytes is padded with "=".
RECURSIVE b64encode(_)
b64encode(b) ==
  IF Len(b) = 0 THEN <<>>
  ELSE IF Len(b) = 1 THEN
    LET n == b[1] * 16
    IN  << B64Char(n \div 64), B64Char(n % 64), B64Pad, B64Pad >>
  ELSE IF Len(b) = 2 THEN
    LET n == (b[1] * 256 + b[2]) * 4
    IN  << B64Char(n \div 4096), B64Char((n \div 64) % 64), B64Char(n % 64),
           B64Pad >>
  ELSE
    LET n == b[1] * 65536 + b[2] * 256 + b[3]
    IN  << B64Char(n \div 262144), B64Char((n \div 4096) % 64),
           B64Char((n \div 64) % 64), B64Char(n % 64) >>
        \o b64encode(SubSeq(b, 4, Len(b)))

\* base64.b64decode of a padded base64 text: four characters give three
\* bytes, fewer when the group ends in "=".
RECURSIVE b64decode(_)
b64decode(s) ==
  IF Len(s) < 4 THEN <<>>
  ELSE
    LET rest == b64decode(SubSeq(s, 5, Len(s)))
    IN  IF s[3] = B64Pad THEN
          LET n == B64Val(s[1]) * 64 + B64Val(s[2])
          IN  << n \div 16 >> \o rest
        ELSE IF s[4] = B64Pad THEN
          LET n == (B64Val(s[1]) * 4096 + B64Val(s[2]) * 64 + B64Val(s[3])) \div 4
          IN  << n \div 256, n % 256 >> \o rest
        ELSE
          LET n == B64Val(s[1]) * 262144 + B64Val(s[2]) * 4096
                   + B64Val(s[3]) * 64 + B64Val(s[4])
          IN  << n \div 65536, (n \div 256) % 256, n % 256 >> \o rest

\* ------------------------------------------------------------------- dicts
\* d.get(k): the value at k, None when k is no key of d.
DictGet(d, k) == IF k \in DOMAIN d THEN d[k] ELSE None

\* del d[k].
DictDel(d, k) == [x \in DOMAIN d \ {k} |-> d[x]]

\* d[k] = v.
DictSet(d, k, v) == [x \in DOMAIN d \cup {k} |-> IF x = k THEN v ELSE d[x]]

\* The empty dict {}.
EmptyDict == [x \in {} |-> <<>>]

\* ------------------------------------------------------------------ inputs
\* The characters of the generated credential strings: an ASCII letter and
\* a letter outside ASCII (e-acute, code point 233).
CredChars == {Ord("a"), 233}

\* The texts over CredChars of length at most n.
TextsUpTo(n) == UNION {[1..k -> CredChars] : k \in 0..n}

\* The value both credential fields have in the deployed secret.
SampleCred == Codes(<<"c", "o", "m", "p", "a", "n", "i", "e", "s">>)

\* The values a credential field of the secret may hold.
CredTexts == TextsUpTo(MaxLen) \cup {SampleCred}

\* The fields of the secret the handler reads.
CredFields == {"NEO4J_USERNAME", "NEO4J_PASSWORD"}

\* The JSON objects a secret may hold: any of the two credential fields may
\* be missing, and the connection URI is always there.
SecretObjects ==
  UNION {{[k \in K \cup {"NEO4J_URI"} |->
             IF k = "NEO4J_URI" THEN Codes(<<"n", "e", "o", "4", "j">>) ELSE f[k]]
           : f \in [K -> CredTexts]} : K \in SUBSET CredFields}

\* The secret's text: a JSON object, a JSON array, or no JSON at all.
SecretTexts ==
  {[text |-> "garbage"], [text |-> "array"]}
  \cup {[text |-> "object", obj |-> o] : o \in SecretObjects}

\* What client.get_secret_value answers: a ClientError (not found, access
\* denied), or a response holding the text as SecretString or, base64
\* encoded, as SecretBinary.
Responses ==
  {[kind |-> "ClientError"]}
  \cup {[kind |-> "SecretString", SecretString |-> t] : t \in SecretTexts}
  \cup {[kind |-> "SecretBinary", SecretBinary |-> [b64 |-> t]] : t \in SecretTexts}

\* The value of the SECRET_ARN environment variable: unset, empty, or set.
SecretArn == Codes(<<"a", "r", "n">>)
Envs == {None, <<>>, SecretArn}

\* Header names and values of the inbound events.
HeaderNames == {"authorization", "Authorization", "AUTHORIZATION", "content-type"}
Bearer == Codes(<<"B", "e", "a", "r", "e", "r", " ", "x", "y", "z">>)
HeaderValues == {Bearer, Codes(<<"x">>)}
HeaderMaps == UNION {[K -> HeaderValues] : K \in SUBSET HeaderNames}

\* The fields an event has beside headers.
Body == Codes(<<"{", "}">>)
OtherFields == {EmptyDict, [k \in {"body"} |-> Body]}

\* The inbound events: with a headers mapping or without one.
Events ==
  OtherFields \cup {DictSet(o, "headers", h) : o \in OtherFields, h \in HeaderMaps}

\* The inputs of the concurrent specification.
ConcEvents ==
  { [k \in {"body"} |-> Body],
    [k \in {"headers"} |-> [n \in {"authorization"} |-> Bearer]],
    [k \in {"headers"} |-> [n \in {"content-type"} |-> Codes(<<"x">>)]] }
\* The secrets of the specification in which the secret changes.
RotResponses ==
  { [kind |-> "SecretString",
     SecretString |-> [text |-> "object",
                       obj |-> [k \in CredFields |-> SampleCred]]],
    [kind |-> "SecretBinary",
     SecretBinary |-> [b64 |-> [text |-> "object",
                                obj |-> [k \in CredFields |-> Codes(<<"a">>)]]]],
    [kind |-> "SecretString", SecretString |-> [text |-> "garbage"]],
    [kind |-> "SecretBinary", SecretBinary |-> [b64 |-> [text |-> "array"]]],
    [kind |-> "ClientError"] }

ConcResponses ==
  { [kind |-> "SecretString",
     SecretString |-> [text |-> "object",
                       obj |-> [k \in CredFields |-> SampleCred]]],
    [kind |-> "SecretString",
     SecretString |-> [text |-> "object",
                       obj |-> [k \in {"NEO4J_USERNAME"} |-> SampleCred]]],
    [kind |-> "ClientError"] }

\* ------------------------------------------------------------------- state
Procs == 1..NumProcs

VARIABLES
  env,        \* os.environ['SECRET_ARN'], None when unset
  store,      \* what the secret store answers to a read of the secret
  client,     \* the module-level Secrets Manager client
  pc,         \* pc[i]: the step invocation i executes next
  event,      \* event[i]: the event object of invocation i
  inbound,    \* inbound[i]: the value of event[i] when the call started
  locals,     \* locals[f]: the local variables of frame f
  result,     \* result[i]: <<the returned event>>, <<>> while none is returned
  err,        \* err[i]: the exception the call raised, "" when none
  ncalls,     \* ncalls[i]: the calls started on event[i]
  callReads,  \* callReads[i]: the reads of the store issued by the current call
  totalReads, \* totalReads[i]: the reads of the store issued by all calls of i
  prev        \* prev[i]: what the previous call on event[i] returned

vars == <<env, store, client, pc, event, inbound, locals, result, err, ncalls,
          callReads, totalReads, prev>>

\* The exceptions a call raises.
ExcNoSecretArn == "Exception: SECRET_ARN environment variable not set"
ExcNoCredentials ==
  "Exception: Secret does not contain NEO4J_USERNAME or NEO4J_PASSWORD"

\* The local variables before they are bound.
Unbound ==
  [secret_name |-> None, response |-> [kind |-> "unbound"],
   secret_str |-> [text |-> "unbound"], secret_json |-> [type |-> "unbound"],
   username |-> None, password |-> None, base64_auth |-> None,
   href |-> 0, fresh |-> EmptyDict]

\* Frame with handler's variables kept at module level, one frame for all.
FrameShared(i) == 1

\* The frame holding the local variables of invocation i: handler's
\* variables are function locals, one frame for each call.
Frame(i) == i

InitWith(envs, responses) ==
  /\ env \in envs
  /\ store \in responses
  /\ client = [service_name |-> "secretsmanager"]
  /\ pc = [i \in Procs |-> "idle"]
  /\ event = [i \in Procs |-> EmptyDict]
  /\ inbound = [i \in Procs |-> EmptyDict]
  /\ locals = [i \in Procs |-> Unbound]
  /\ result = [i \in Procs |-> <<>>]
  /\ err = [i \in Procs |-> ""]
  /\ ncalls = [i \in Procs |-> 0]
  /\ callReads = [i \in Procs |-> 0]
  /\ totalReads = [i \in Procs |-> 0]
  /\ prev = [i \in Procs |-> <<>>]

Init == InitWith(Envs, Responses)

\* ------------------------------------------------------- the handler's steps
\* The local variables of invocation i.
L(i) == locals[Frame(i)]

\* The call of invocation i ends by raising e.
Raise(i, e) ==
  /\ pc' = [pc EXCEPT ![i] = "failed"]
  /\ err' = [err EXCEPT ![i] = e]

\* Invocation i goes on to step l.
Goto(i, l) ==
  /\ pc' = [pc EXCEPT ![i] = l]
  /\ UNCHANGED err

\* EnvMissing with the test `secret_name == ""` in place of `not secret_name`.
EnvMissingEmptyOnly(name) == name = <<>>

\* Line 32, `not secret_name`: no secret is named when the variable is unset
\* or empty.
EnvMissing(name) == ~Truthy(name)

\* OnClientError with the read tried a second time before the error is raised.
OnClientErrorRetry(n) == IF n < 2 THEN "retry" ELSE "raise"

\* Lines 17-18: a ClientError of the n-th read is raised again, not retried.
OnClientError(n) == "raise"

\* Lines 20-23: the text of a response, SecretString as it is, SecretBinary
\* base64-decoded.
SecretText(r) ==
  IF "SecretString" \in DOMAIN r THEN r.SecretString ELSE r.SecretBinary.b64

\* Line 37, json.loads: a text that is no JSON raises JSONDecodeError.
JsonParses(t) == t.text # "garbage"

\* Line 37, json.loads: a JSON object gives a dict, a JSON array a list.
JsonValue(t) ==
  IF t.text = "object" THEN [type |-> "dict", items |-> t.obj]
  ELSE [type |-> "list"]

\* InvalidCredentials with `and` in place of `or`.
InvalidCredentialsBoth(u, p) == ~Truthy(u) /\ ~Truthy(p)

\* Line 42: either credential is missing (None) or empty.
InvalidCredentials(u, p) == ~Truthy(u) \/ ~Truthy(p)

\* AuthStr without the colon between the two credentials.
AuthStrNoColon(u, p) == FStr(u) \o FStr(p)

\* Line 46: f"{username}:{password}".
AuthStr(u, p) == FStr(u) \o Codes(<<":">>) \o FStr(p)

\* Lines 47-49: the base64 text of the ASCII bytes of the credentials.
Base64Auth(u, p) == b64encode(AuthStr(u, p))

\* Line 58: f"Basic {base64_auth}".
BasicValue(token) == Codes(<<"B", "a", "s", "i", "c", " ">>) \o token

\* StrippedKeys with the test made on 'Authorization'.
StrippedKeysCapital(h) == DOMAIN h \cap {"Authorization"}

\* Line 54: the key the handler deletes from the headers.
StrippedKeys(h) == DOMAIN h \cap {"authorization"}

\* Lines 54-55: the headers without the inbound authorization entry.
DelAuthorization(h) == [k \in DOMAIN h \ StrippedKeys(h) |-> h[k]]

\* SetAuthorization appending to an Authorization value already there.
SetAuthorizationAppend(h, value) ==
  DictSet(h, "Authorization",
          IF "Authorization" \in DOMAIN h
          THEN h["Authorization"] \o Codes(<<",", " ">>) \o value
          ELSE value)

\* Line 58: headers['Authorization'] = value.
SetAuthorization(h, value) == DictSet(h, "Authorization", value)

\* AssignHeaders with line 60 left out.
AssignHeadersSkipped(ev, h) == ev

\* AssignHeaders building a new event that holds the headers alone.
AssignHeadersOnly(ev, h) == [k \in {"headers"} |-> h]

\* Line 60: event['headers'] = headers, on the event object itself.
AssignHeaders(ev, h) == DictSet(ev, "headers", h)

\* The dict the local variable headers refers to: the headers of an event,
\* or the dict line 52 made.
HeadersOf(l) == IF l.href # 0 THEN event[l.href]["headers"] ELSE l.fresh

\* The dict the local variable headers refers to becomes h.
WriteHeaders(i, h) ==
  IF L(i).href # 0
  THEN /\ event' = [event EXCEPT ![L(i).href] = DictSet(@, "headers", h)]
       /\ UNCHANGED locals
  ELSE /\ locals' = [locals EXCEPT ![Frame(i)].fresh = h]
       /\ UNCHANGED event

\* The platform calls handler(ev, context).
Invoke(i, evs) ==
  /\ pc[i] = "idle"
  /\ \E ev \in evs :
       /\ event' = [event EXCEPT ![i] = ev]
       /\ inbound' = [inbound EXCEPT ![i] = ev]
  /\ pc' = [pc EXCEPT ![i] = "L31"]
  /\ ncalls' = [ncalls EXCEPT ![i] = 1]
  /\ UNCHANGED <<env, store, client, locals, result, err, callReads, totalReads,
                 prev>>

\* handler is called again on the same event object: the event the previous
\* call returned, or the event it failed on.
Reinvoke(i) ==
  /\ pc[i] \in {"done", "failed"}
  /\ ncalls[i] < MaxCalls
  /\ prev' = [prev EXCEPT ![i] = result[i]]
  /\ inbound' = [inbound EXCEPT ![i] = event[i]]
  /\ result' = [result EXCEPT ![i] = <<>>]
  /\ callReads' = [callReads EXCEPT ![i] = 0]
  /\ err' = [err EXCEPT ![i] = ""]
  /\ pc' = [pc EXCEPT ![i] = "L31"]
  /\ ncalls' = [ncalls EXCEPT ![i] = @ + 1]
  /\ UNCHANGED <<env, store, client, event, locals, totalReads>>

\* Lines 31-33: secret_name = os.environ.get('SECRET_ARN').
CheckEnv(i) ==
  /\ pc[i] = "L31"
  /\ locals' = [locals EXCEPT ![Frame(i)].secret_name = env]
  /\ IF EnvMissing(env) THEN Raise(i, ExcNoSecretArn) ELSE Goto(i, "L14")
  /\ UNCHANGED <<env, store, client, event, inbound, result, ncalls, callReads,
                 totalReads, prev>>

\* Lines 14-18: client.get_secret_value(SecretId=secret_name), one read of
\* the store.
GetSecretValue(i) ==
  /\ pc[i] = "L14"
  /\ callReads' = [callReads EXCEPT ![i] = @ + 1]
  /\ totalReads' = [totalReads EXCEPT ![i] = @ + 1]
  /\ IF store.kind = "ClientError"
     THEN /\ IF OnClientError(callReads[i] + 1) = "raise"
             THEN Raise(i, "ClientError")
             ELSE Goto(i, "L14")
          /\ UNCHANGED locals
     ELSE /\ locals' = [locals EXCEPT ![Frame(i)].response = store]
          /\ Goto(i, "L20")
  /\ UNCHANGED <<env, store, client, event, inbound, result, ncalls, prev>>

\* Lines 20-23 and 36: secret_str = get_secret(secret_name).
GetSecret(i) ==
  /\ pc[i] = "L20"
  /\ locals' = [locals EXCEPT ![Frame(i)].secret_str = SecretText(L(i).response)]
  /\ Goto(i, "L37")
  /\ UNCHANGED <<env, store, client, event, inbound, result, ncalls, callReads,
                 totalReads, prev>>

\* Line 37: secret_json = json.loads(secret_str).
JsonLoads(i) ==
  /\ pc[i] = "L37"
  /\ IF JsonParses(L(i).secret_str)
     THEN /\ locals' = [locals EXCEPT
                          ![Frame(i)].secret_json = JsonValue(L(i).secret_str)]
          /\ Goto(i, "L39")
     ELSE /\ Raise(i, "JSONDecodeError")
          /\ UNCHANGED locals
  /\ UNCHANGED <<env, store, client, event, inbound, result, ncalls, callReads,
                 totalReads, prev>>

\* Lines 39-40: the two secret_json.get calls; a list has no get.
GetCredentials(i) ==
  /\ pc[i] = "L39"
  /\ IF L(i).secret_json.type = "dict"
     THEN /\ locals' = [locals EXCEPT
               ![Frame(i)].username = DictGet(L(i).secret_json.items, "NEO4J_USERNAME"),
               ![Frame(i)].password = DictGet(L(i).secret_json.items, "NEO4J_PASSWORD")]
          /\ Goto(i, "L42")
     ELSE /\ Raise(i, "AttributeError")
          /\ UNCHANGED locals
  /\ UNCHANGED <<env, store, client, event, inbound, result, ncalls, callReads,
                 totalReads, prev>>

\* Lines 42-43: if not username or not password: raise.
CheckCredentials(i) ==
  /\ pc[i] = "L42"
  /\ IF InvalidCredentials(L(i).username, L(i).password)
     THEN Raise(i, ExcNoCredentials)
     ELSE Goto(i, "L46")
  /\ UNCHANGED <<env, store, client, event, inbound, locals, result, ncalls,
                 callReads, totalReads, prev>>

\* Lines 46-49: the Basic token; encode('ascii') raises on a character
\* outside ASCII.
BuildToken(i) ==
  /\ pc[i] = "L46"
  /\ IF CanEncodeAscii(AuthStr(L(i).username, L(i).password))
     THEN /\ locals' = [locals EXCEPT ![Frame(i)].base64_auth =
                          Base64Auth(L(i).username, L(i).password)]
          /\ Goto(i, "L52")
     ELSE /\ Raise(i, "UnicodeEncodeError")
          /\ UNCHANGED locals
  /\ UNCHANGED <<env, store, client, event, inbound, result, ncalls, callReads,
                 totalReads, prev>>

\* Line 52: headers = event.get('headers', {}): the event's own dict, or a
\* new empty one.
GetHeaders(i) ==
  /\ pc[i] = "L52"
  /\ locals' = [locals EXCEPT
                  ![Frame(i)].href = IF "headers" \in DOMAIN event[i] THEN i ELSE 0,
                  ![Frame(i)].fresh = EmptyDict]
  /\ Goto(i, "L54")
  /\ UNCHANGED <<env, store, client, event, inbound, result, ncalls, callReads,
                 totalReads, prev>>

\* Lines 54-55: if 'authorization' in headers: del headers['authorization'].
DelHeader(i) ==
  /\ pc[i] = "L54"
  /\ WriteHeaders(i, DelAuthorization(HeadersOf(L(i))))
  /\ Goto(i, "L58")
  /\ UNCHANGED <<env, store, client, inbound, result, ncalls, callReads,
                 totalReads, prev>>

\* Line 58: headers['Authorization'] = f"Basic {base64_auth}".
SetHeader(i) ==
  /\ pc[i] = "L58"
  /\ WriteHeaders(i, SetAuthorization(HeadersOf(L(i)), BasicValue(L(i).base64_auth)))
  /\ Goto(i, "L60")
  /\ UNCHANGED <<env, store, client, inbound, result, ncalls, callReads,
                 totalReads, prev>>

\* Line 60: event['headers'] = headers.
StoreHeaders(i) ==
  /\ pc[i] = "L60"
  /\ event' = [event EXCEPT ![i] = AssignHeaders(@, HeadersOf(L(i)))]
  /\ Goto(i, "L62")
  /\ UNCHANGED <<env, store, client, inbound, locals, result, ncalls, callReads,
                 totalReads, prev>>

\* Line 62: return event.
Return(i) ==
  /\ pc[i] = "L62"
  /\ result' = [result EXCEPT ![i] = <<event[i]>>]
  /\ Goto(i, "done")
  /\ UNCHANGED <<env, store, client, event, inbound, locals, ncalls, callReads,
                 totalReads, prev>>

\* The secret is changed in the store while no call is running and a
\* further call is to come.
Rotate(responses) ==
  /\ \A i \in Procs : pc[i] \in {"idle", "done", "failed"}
  /\ \E i \in Procs : pc[i] # "idle" /\ ncalls[i] < MaxCalls
  /\ store' \in responses \ {store}
  /\ UNCHANGED <<env, client, pc, event, inbound, locals, result, err, ncalls,
                 callReads, totalReads, prev>>

\* One step of the call of invocation i.
Step(i) ==
  \/ CheckEnv(i)
  \/ GetSecretValue(i)
  \/ GetSecret(i)
  \/ JsonLoads(i)
  \/ GetCredentials(i)
  \/ CheckCredentials(i)
  \/ BuildToken(i)
  \/ GetHeaders(i)
  \/ DelHeader(i)
  \/ SetHeader(i)
  \/ StoreHeaders(i)
  \/ Return(i)

\* One invocation at a time: a call on any event, then calls on what it
\* returned.
Next ==
  \/ Invoke(1, Events)
  \/ Reinvoke(1)
  \/ Step(1)

Spec == Init /\ [][Next]_vars

\* Concurrent invocations, each on an event of its own, with the secret
\* reference set.
InitConc == InitWith({SecretArn}, ConcResponses)

NextConc == \E i \in Procs : Invoke(i, ConcEvents) \/ Step(i)

SpecConc == InitConc /\ [][NextConc]_vars

\* One invocation at a time, the secret changing between the calls.
InitRotate == InitWith({SecretArn}, RotResponses)

NextRotate ==
  \/ Invoke(1, Events)
  \/ Reinvoke(1)
  \/ Step(1)
  \/ Rotate(RotResponses)

SpecRotate == InitRotate /\ [][NextRotate]_vars

\* The outcome of handler(ev, context) run from its first line to its last
\* with nothing else running: the exception it raises, or the event it
\* returns.
HandlerAlone(e, s, ev) ==
  IF EnvMissing(e) THEN [err |-> ExcNoSecretArn, result |-> <<>>]
  ELSE IF s.kind = "ClientError" THEN [err |-> "ClientError", result |-> <<>>]
  ELSE IF ~JsonParses(SecretText(s)) THEN [err |-> "JSONDecodeError", result |-> <<>>]
  ELSE IF JsonValue(SecretText(s)).type # "dict"
    THEN [err |-> "AttributeError", result |-> <<>>]
  ELSE
    LET items == JsonValue(SecretText(s)).items
        u == DictGet(items, "NEO4J_USERNAME")
        p == DictGet(items, "NEO4J_PASSWORD")
        h == IF "headers" \in DOMAIN ev THEN ev["headers"] ELSE EmptyDict
    IN  IF InvalidCredentials(u, p) THEN [err |-> ExcNoCredentials, result |-> <<>>]
        ELSE IF ~CanEncodeAscii(AuthStr(u, p))
          THEN [err |-> "UnicodeEncodeError", result |-> <<>>]
        ELSE [err |-> "",
              result |-> << AssignHeaders(ev,
                              SetAuthorization(DelAuthorization(h),
                                               BasicValue(Base64Auth(u, p)))) >>]

\* ------------------------------------------------------------------ claims
\* The call of invocation i has ended.
Finished(i) == pc[i] \in {"done", "failed"}

\* The call of invocation i has returned an event.
Returned(i) == pc[i] = "done" /\ Len(result[i]) = 1

\* The event the call of invocation i returned, and its headers.
Out(i) == result[i][1]
OutHeaders(i) == Out(i)["headers"]

\* The event has a headers field.
HasHeaders(ev) == "headers" \in DOMAIN ev

\* The secret reference is set, and the store holds a JSON object.
SecretIsObject ==
  /\ env # None /\ env # <<>>
  /\ store.kind # "ClientError"
  /\ (IF store.kind = "SecretString" THEN store.SecretString
      ELSE store.SecretBinary.b64).text = "object"

\* The JSON object the store holds.
SecretObject ==
  (IF store.kind = "SecretString" THEN store.SecretString
   ELSE store.SecretBinary.b64).obj

\* The object has both credentials, neither empty.
HasCredentials(o) == \A k \in CredFields : k \in DOMAIN o /\ o[k] # <<>>

\* u + ":" + p of the object.
UserColonPass(o) == o["NEO4J_USERNAME"] \o << Ord(":") >> \o o["NEO4J_PASSWORD"]

\* The text holds ASCII characters only.
IsAscii(t) == \A n \in 1..Len(t) : t[n] < 128

\* The headers hold Authorization: "Basic " + base64(text), and decoding
\* what follows "Basic " gives the text back.
IsBasicOf(h, text) ==
  /\ "Authorization" \in DOMAIN h
  /\ h["Authorization"] = Codes(<<"B", "a", "s", "i", "c", " ">>) \o b64encode(text)
  /\ b64decode(SubSeq(h["Authorization"], 7, Len(h["Authorization"]))) = text

\* The call returned the event with the Basic header of the object's
\* credentials.
ReturnedBasic(i, o) ==
  /\ Returned(i)
  /\ HasHeaders(Out(i))
  /\ IsBasicOf(OutHeaders(i), UserColonPass(o))

\* C1 as stated: whenever both credentials of the secret are non-empty, a
\* call, once ended, has returned an event whose Authorization header is
\* "Basic " + base64(u + ":" + p), which decodes to u + ":" + p.
C1_Original ==
  \A i \in Procs :
    (Finished(i) /\ SecretIsObject /\ HasCredentials(SecretObject))
      => ReturnedBasic(i, SecretObject)

\* C1, amended: the same whenever both credentials are non-empty and hold
\* ASCII characters only; and for the credentials companies / companies the
\* header reads "Basic Y29tcGFuaWVzOmNvbXBhbmllcw==".
C1_BasicHeader ==
  \A i \in Procs :
    (Finished(i) /\ SecretIsObject /\ HasCredentials(SecretObject)
       /\ IsAscii(UserColonPass(SecretObject)))
      => /\ ReturnedBasic(i, SecretObject)
         /\ (\A k \in CredFields : SecretObject[k] = SampleCred)
              => Str(OutHeaders(i)["Authorization"])
                   = "Basic Y29tcGFuaWVzOmNvbXBhbmllcw=="

\* The scenario of C1: credentials companies / companies, inbound headers
\* {"authorization": "Bearer xyz"}, and the returned headers hold the Basic
\* header alone.
C1_Witness ==
  \E i \in Procs :
    /\ Returned(i)
    /\ SecretIsObject
    /\ \A k \in CredFields : k \in DOMAIN SecretObject /\ SecretObject[k] = SampleCred
    /\ HasHeaders(inbound[i])
    /\ inbound[i]["headers"] = [k \in {"authorization"} |-> Bearer]
    /\ HasHeaders(Out(i))
    /\ DOMAIN OutHeaders(i) = {"Authorization"}
    /\ Str(OutHeaders(i)["Authorization"]) = "Basic Y29tcGFuaWVzOmNvbXBhbmllcw=="

\* The header name compared without regard to case.
NameMatchesAuthorization(k) ==
  k \in {"authorization", "Authorization", "AUTHORIZATION"}

\* C2 as stated: in the headers of a returned event the only key matching
\* authorization without regard to case is Authorization, and it carries
\* the Basic value.
C2_CaseInsensitiveRemoval ==
  \A i \in Procs :
    Returned(i) =>
      /\ HasHeaders(Out(i))
      /\ \A k \in DOMAIN OutHeaders(i) :
           NameMatchesAuthorization(k) => k = "Authorization"
      /\ SecretIsObject /\ IsBasicOf(OutHeaders(i), UserColonPass(SecretObject))

\* C3: a call on an event whose headers hold the key authorization returns
\* headers without the key authorization and with the key Authorization.
C3_LowercaseRemoved ==
  \A i \in Procs :
    (Returned(i) /\ HasHeaders(inbound[i])
       /\ "authorization" \in DOMAIN inbound[i]["headers"])
      => /\ HasHeaders(Out(i))
         /\ "authorization" \notin DOMAIN OutHeaders(i)
         /\ "Authorization" \in DOMAIN OutHeaders(i)

\* A call on an event with an authorization header, whatever its value,
\* has returned.
C3_Witness ==
  \E i \in Procs :
    /\ Returned(i)
    /\ HasHeaders(inbound[i])
    /\ "authorization" \in DOMAIN inbound[i]["headers"]
    /\ inbound[i]["headers"]["authorization"] # Bearer
    /\ "AUTHORIZATION" \in DOMAIN inbound[i]["headers"]

\* C4: a call on an event without a headers field returns an event whose
\* headers hold exactly one entry, Authorization.
C4_NoHeadersField ==
  \A i \in Procs :
    (Returned(i) /\ ~HasHeaders(inbound[i]))
      => /\ HasHeaders(Out(i))
         /\ DOMAIN OutHeaders(i) = {"Authorization"}

\* A call on an event without headers has returned.
C4_Witness ==
  \E i \in Procs :
    Returned(i) /\ ~HasHeaders(inbound[i]) /\ "body" \in DOMAIN inbound[i]

\* The error of the taxonomy an exception of the handler stands for.
ConfigurationError(e) == e = ExcNoSecretArn
SecretResolutionError(e) == e \in {"ClientError", "JSONDecodeError", "AttributeError"}
InvalidCredentialError(e) == e = ExcNoCredentials

\* C5: with SECRET_ARN unset no call issues a read of the store or returns
\* an event, at any point, and a call that has ended has failed with the
\* configuration error.
C5_UnsetSecretArn ==
  \A i \in Procs :
    env = None =>
      /\ callReads[i] = 0 /\ totalReads[i] = 0
      /\ result[i] = <<>>
      /\ pc[i] \in {"idle", "L31", "failed"}
      /\ Finished(i) => (pc[i] = "failed" /\ ConfigurationError(err[i]))

\* With SECRET_ARN unset, a second call has failed as well.
C5_Witness ==
  \E i \in Procs : env = None /\ pc[i] = "failed" /\ ncalls[i] = 2

\* C6: while the secret is an object that lacks a credential or holds an
\* empty one, no call changes its event, gets past the check of line 42 or
\* returns an event, and a call that has ended has failed with the
\* credential error.
C6_InvalidCredentials ==
  \A i \in Procs :
    (SecretIsObject /\ ~HasCredentials(SecretObject)) =>
      /\ event[i] = inbound[i]
      /\ result[i] = <<>>
      /\ pc[i] \notin {"L46", "L52", "L54", "L58", "L60", "L62", "done"}
      /\ Finished(i) => (pc[i] = "failed" /\ InvalidCredentialError(err[i]))

\* A call on an event with an authorization header has failed on a secret
\* that has a username and no password.
C6_Witness ==
  \E i \in Procs :
    /\ SecretIsObject
    /\ "NEO4J_USERNAME" \in DOMAIN SecretObject
    /\ SecretObject["NEO4J_USERNAME"] = SampleCred
    /\ "NEO4J_PASSWORD" \notin DOMAIN SecretObject
    /\ pc[i] = "failed"
    /\ err[i] = ExcNoCredentials
    /\ HasHeaders(inbound[i])
    /\ "authorization" \in DOMAIN inbound[i]["headers"]

\* The read of the store fails, or what it gives is no JSON object.
SecretUnresolvable ==
  \/ store.kind = "ClientError"
  \/ (IF store.kind = "SecretString" THEN store.SecretString
      ELSE store.SecretBinary.b64).text # "object"

\* C7, the reads: with SECRET_ARN set, a call never issues a second read,
\* has issued its one read once it is past line 14, and every call of an
\* invocation has issued a read of its own.
C7_ReadCount ==
  \A i \in Procs :
    (env # None /\ env # <<>>) =>
      /\ callReads[i] <= 1
      /\ (pc[i] \notin {"idle", "L31", "L14"}) => callReads[i] = 1
      /\ ncalls[i] > 0 => totalReads[i] = (ncalls[i] - 1) + callReads[i]

\* C7, the end of a call: a call that ends while the store fails the read or
\* holds no JSON object fails with a resolution error, after one read and
\* without returning; a call that returns carries the credentials the store
\* holds then, not those an earlier call read.
C7_CallEnd ==
  \A i \in Procs :
    (~Finished(i) /\ Finished(i)') =>
      /\ SecretUnresolvable' =>
           /\ pc'[i] = "failed"
           /\ SecretResolutionError(err'[i])
           /\ callReads'[i] = 1
           /\ result'[i] = <<>>
      /\ pc'[i] = "done" =>
           (SecretIsObject' /\ HasCredentials(SecretObject')
              /\ ReturnedBasic(i, SecretObject)')

HeadersOrNone(ev) == IF HasHeaders(ev) THEN ev["headers"] ELSE EmptyDict

\* C8: a returned event has the fields of the inbound event other than
\* headers, with their values, and its headers have the inbound entries
\* other than authorization and Authorization, with their values, and no
\* further entry but Authorization.
C8_Frame ==
  \A i \in Procs :
    Returned(i) =>
      /\ DOMAIN Out(i) \ {"headers"} = DOMAIN inbound[i] \ {"headers"}
      /\ \A k \in DOMAIN inbound[i] \ {"headers"} : Out(i)[k] = inbound[i][k]
      /\ HasHeaders(Out(i))
      /\ DOMAIN OutHeaders(i) \ {"authorization", "Authorization"}
           = DOMAIN HeadersOrNone(inbound[i]) \ {"authorization", "Authorization"}
      /\ \A k \in DOMAIN HeadersOrNone(inbound[i]) \ {"authorization", "Authorization"} :
           OutHeaders(i)[k] = inbound[i]["headers"][k]

\* A call on an event with a body and with other headers beside the
\* authorization header has returned.
C8_Witness ==
  \E i \in Procs :
    /\ Returned(i)
    /\ "body" \in DOMAIN inbound[i]
    /\ HasHeaders(inbound[i])
    /\ {"authorization", "content-type", "AUTHORIZATION"} \subseteq DOMAIN inbound[i]["headers"]

\* C9: a call on the event a previous call returned returns as well, with
\* the same headers and the same Authorization value.
C9_SecondCall ==
  \A i \in Procs :
    (ncalls[i] >= 2 /\ Len(prev[i]) = 1 /\ Finished(i)) =>
      /\ Returned(i)
      /\ HasHeaders(Out(i)) /\ HasHeaders(prev[i][1])
      /\ OutHeaders(i) = prev[i][1]["headers"]
      /\ "Authorization" \in DOMAIN OutHeaders(i)
      /\ OutHeaders(i)["Authorization"] = prev[i][1]["headers"]["Authorization"]

\* A second call has returned, on the event of the first call, which holds
\* no authorization key any more but another header.
C9_Witness ==
  \E i \in Procs :
    /\ ncalls[i] = 2
    /\ Len(prev[i]) = 1
    /\ Returned(i)
    /\ HasHeaders(inbound[i])
    /\ "authorization" \notin DOMAIN inbound[i]["headers"]
    /\ "content-type" \in DOMAIN inbound[i]["headers"]

\* C10, the outcome: whatever the interleaving, a call that has ended raised
\* or returned what handler gives for its event when it runs alone.
C10_AsAlone ==
  \A i \in Procs :
    Finished(i) =>
      [err |-> err[i], result |-> result[i]] = HandlerAlone(env, store, inbound[i])

\* C10, the writes: a step of a call leaves the client, the environment and
\* the store as they are, and touches no other invocation's event, local
\* variables or outcome, and of its own event only the headers.
C10_OwnWrites ==
  \A i \in Procs :
    (pc[i] # "idle" /\ pc'[i] # pc[i]) =>
      /\ client' = client /\ env' = env /\ store' = store
      /\ \A j \in Procs \ {i} :
           /\ event'[j] = event[j]
           /\ locals'[j] = locals[j]
           /\ result'[j] = result[j]
           /\ err'[j] = err[j]
      /\ DOMAIN event'[i] \ {"headers"} = DOMAIN event[i] \ {"headers"}
      /\ \A k \in DOMAIN event[i] \ {"headers"} : event'[i][k] = event[i][k]

\* C10: concurrent invocations on events of their own each return what
\* they return alone, and share no state that a step writes.
C10_Independent == []C10_AsAlone /\ [][C10_OwnWrites]_vars

\* Two invocations on different events have both returned.
C10_Witness ==
  /\ Returned(1) /\ Returned(2)
  /\ inbound[1] # inbound[2]
  /\ HasHeaders(inbound[1]) /\ ~HasHeaders(inbound[2])

=============================================================================
